---- MODULE Spec2Model ----
(***************************************************************************)
(* Order placement, cancellation and coupon redemption of GronderfulShops  *)
(* (functions/routes/orders.js, coupons.js, products.js) over Firestore.   *)
(*                                                                         *)
(* Store semantics (firebase-admin, instantiated in config/firebase.js):   *)
(*  - db.runTransaction runs the update function, buffers its writes and   *)
(*    applies them atomically at commit; when a document the transaction   *)
(*    read was written by somebody else meanwhile, the attempt is aborted  *)
(*    and the update function is re-run, MaxAttempts attempts in all;      *)
(*  - transaction.get after a buffered write throws ("Firestore            *)
(*    transactions require all reads to be executed before all writes");   *)
(*  - FieldValue.increment(n) is applied to the committed value at commit  *)
(*    time; a plain field write overwrites;                                *)
(*  - ref.update() on a missing document rejects (NOT_FOUND);              *)
(*  - every await outside a transaction is a point where other requests    *)
(*    interleave.                                                          *)
(* Money is in cents.                                                      *)
(***************************************************************************)
EXTENDS Integers, Sequences, FiniteSets, TLC

VARIABLES products, orders, coupons, couponUsage, rq, stock0, served

vars == <<products, orders, coupons, couponUsage, rq, stock0, served>>

\* ------------------------------------------------------------------ bounds
NReq == 2
MaxStock == 2
MaxQty == 2
MaxLines == 2
MaxOrders == 2
MaxRequests == 3

\* --------------------------------------------------------------- constants
MaxAttempts == 5
TaxDivisor == 10
MillsPerCent == 10
FreeShippingOver == 5000
ShippingFee == 999

Reqs == 1..NReq
Products == {"p1", "p2"}
ProductIds == Products \cup {"px"}
NoVariant == "none"
VariantsOf(p) == IF p = "p1" THEN {"v1"} ELSE {}
Guest == "guest"
AdminUser == "admin"
Prices == {1000}

\* --------------------------------------------------------------- requests
Idle ==
  [kind |-> "none", pc |-> "idle", input |-> <<>>, i |-> 0, items |-> <<>>,
   writes |-> <<>>, reads |-> {}, stale |-> FALSE, attempt |-> 0,
   peers |-> {}, snap |-> <<>>, code |-> 0, error |-> "none",
   discountAmount |-> 0]

\* res.status(code).json({error...}): the request is over, its locals are gone
Respond(r, c, e) ==
  [r EXCEPT !.pc = "done", !.i = 0, !.items = <<>>, !.writes = <<>>,
            !.reads = {}, !.stale = FALSE, !.attempt = 0, !.peers = {},
            !.snap = <<>>, !.code = c, !.error = e]

\* the reads are not registered with the transaction, as productRef.get()
\* in place of transaction.get(productRef) would leave them
MarkStaleUnwatched(q, writer, pids) == q

\* a committed write to the documents in pids aborts the running attempt of
\* every other transaction that read one of them
MarkStale(q, writer, pids) ==
  [r \in Reqs |->
     IF r # writer /\ q[r].reads \cap pids # {}
     THEN [q[r] EXCEPT !.stale = TRUE]
     ELSE q[r]]

\* a request takes the lowest free slot; MaxRequests requests are served
CanStart(r) ==
  /\ rq[r].pc = "idle"
  /\ \A s \in Reqs : s < r => rq[s].pc # "idle"
  /\ served < MaxRequests

\* ----------------------------------------------------------- place order
\* a cart line; price is a unit price the client put on the line (0: none),
\* which no validator asks for and the handler never reads
PricedLine(p, q, v, price) ==
  [productId |-> p, quantity |-> q, variantId |-> v, price |-> price]

Line(p, q, v) == PricedLine(p, q, v, 0)

SingleLines ==
  {Line("p1", q, NoVariant) : q \in 1..MaxQty}
  \cup {Line("p1", 1, "v1"), Line("p1", 1, "vx"),
        Line("p2", 1, NoVariant), Line("px", 1, NoVariant)}

ShortLines == {Line("p1", 1, NoVariant)}

Carts ==
  {<<l>> : l \in SingleLines}
  \cup UNION {[1..n -> ShortLines] : n \in 2..MaxLines}

\* req.body.items with req.user of optionalAuth (a guest has none)
PlaceInputs ==
  {[cart |-> c, user |-> "u1"] : c \in Carts}
  \cup {[cart |-> <<Line("p1", 1, NoVariant)>>, user |-> Guest]}

\* line 70: product.stockQuantity < item.quantity throws
HasStock(product, item) == product.stockQuantity >= item.quantity

\* line 78: item.variantId && product.variants && product.variants.length > 0,
\* line 79-80: find(v => v.id === item.variantId) found
SelectsVariant(product, item) ==
  /\ item.variantId # NoVariant
  /\ DOMAIN product.variants # {}
  /\ item.variantId \in DOMAIN product.variants

\* line 83: variant.stock < item.quantity throws
VariantHasStock(product, item) ==
  product.variants[item.variantId].stock >= item.quantity

\* mutant of ItemPrice: a price sent on the cart line is taken as unit price
ItemPriceFromClient(product, item) ==
  IF item.price # 0 THEN item.price
  ELSE IF SelectsVariant(product, item)
            /\ product.variants[item.variantId].price # 0
  THEN product.variants[item.variantId].price
  ELSE product.price

\* line 74, 81: itemPrice = variant.price || product.price
ItemPrice(product, item) ==
  IF SelectsVariant(product, item)
       /\ product.variants[item.variantId].price # 0
  THEN product.variants[item.variantId].price
  ELSE product.price

\* lines 60-87: the error thrown for a cart line, "none" when it passes
LineError(item) ==
  IF item.productId \notin DOMAIN products THEN "ProductNotFound"
  ELSE LET product == products[item.productId] IN
       IF ~product.isActive THEN "ProductInactive"
       ELSE IF ~HasStock(product, item) THEN "InsufficientStock"
       ELSE IF SelectsVariant(product, item) /\ ~VariantHasStock(product, item)
            THEN "InsufficientVariantStock"
       ELSE "none"

\* lines 89-100: the order item pushed for a cart line
OrderItem(product, item) ==
  [productId |-> item.productId,
   productPrice |-> ItemPrice(product, item),
   quantity |-> item.quantity,
   variantId |-> item.variantId,
   subtotal |-> ItemPrice(product, item) * item.quantity]

\* lines 103-117: the writes buffered for a cart line
LineWrites(product, item) ==
  <<[op |-> "incStock", pid |-> item.productId, by |-> 0 - item.quantity]>>
  \o (IF item.variantId # NoVariant /\ item.variantId \in DOMAIN product.variants
      THEN <<[op |-> "setVariants", pid |-> item.productId,
              variants |-> [product.variants EXCEPT
                 ![item.variantId].stock = @ - item.quantity]]>>
      ELSE <<>>)

\* one buffered write applied to the committed products
ApplyWrite(ps, w) ==
  IF w.op = "incStock"
  THEN [ps EXCEPT ![w.pid].stockQuantity = @ + w.by]
  ELSE [ps EXCEPT ![w.pid].variants = w.variants]

RECURSIVE ApplyWrites(_, _)
ApplyWrites(ps, ws) ==
  IF ws = <<>> THEN ps
  ELSE ApplyWrites(ApplyWrite(ps, Head(ws)), Tail(ws))

\* the writes go to the store at once, as productRef.update would
ImmediateUpdate(ps, ws) == ApplyWrites(ps, ws)

\* line 103, 113: transaction.update only buffers the write: the committed
\* products stay as they are until the commit
BufferedUpdate(ps, ws) == ps

WritePids(ws) == {ws[k].pid : k \in DOMAIN ws}

RECURSIVE SumSubtotal(_)
SumSubtotal(items) ==
  IF items = <<>> THEN 0
  ELSE Head(items).subtotal + SumSubtotal(Tail(items))

\* lines 120-147: the order document. subtotal and shipping are in cents; tax
\* (subtotal * 0.1) and total are not whole cents in general and are kept in
\* mills, tenths of a cent. cancels is history: how many cancel transactions
\* have committed on the order. The document is created without orderNotes,
\* which the notes handler reads as the empty list (line 539)
NewOrder(user, items, number) ==
  LET subtotal == SumSubtotal(items)
      tax == (subtotal * MillsPerCent) \div TaxDivisor
      shipping == IF subtotal > FreeShippingOver THEN 0 ELSE ShippingFee
  IN [userId |-> user, orderNumber |-> number, items |-> items,
      subtotal |-> subtotal, tax |-> tax, shipping |-> shipping,
      total |-> subtotal * MillsPerCent + tax + shipping * MillsPerCent,
      status |-> "pending", cancels |-> 0, orderNotes |-> <<>>]

\* lines 8-12, 126: generateOrderNumber() is the millisecond clock plus four
\* random characters, so it returns a string no earlier call returned, unless
\* it runs in the same millisecond as another call and draws the same
\* characters. Two update functions can share a millisecond only if both
\* generated their number before either committed: q.peers are the orders
\* committed while this attempt was waiting to commit. Numbers are named by
\* the index of the first order that carries them
OrderNumbers(q) ==
  {Len(orders) + 1} \cup {orders[k].orderNumber : k \in q.peers}

\* order id was committed: the attempts that have generated their number and
\* may still commit were running in the same milliseconds
AddPeer(q, writer, id) ==
  [r \in Reqs |->
     IF r # writer /\ q[r].kind = "place" /\ q[r].pc = "commit" /\ ~q[r].stale
     THEN [q[r] EXCEPT !.peers = @ \cup {id}]
     ELSE q[r]]

\* mutant of LineStep: transaction.get is answered after a buffered write too,
\* from the documents as committed
LineStepReadingAfterWrite(q) ==
  LET item == q.input.cart[q.i] IN
  IF LineError(item) # "none" THEN Respond(q, 500, LineError(item))
  ELSE LET product == products[item.productId] IN
       [q EXCEPT !.reads = @ \cup {item.productId},
                 !.items = Append(@, OrderItem(product, item)),
                 !.writes = @ \o LineWrites(product, item),
                 !.i = @ + 1,
                 !.pc = IF q.i = Len(q.input.cart) THEN "commit" ELSE "line"]

\* mutant of LineStep: a throw of the update function starts the next attempt
\* while attempts remain
LineStepRetrying(q) ==
  LET item == q.input.cart[q.i] IN
  IF q.writes # <<>> THEN Respond(q, 500, "ReadAfterWrite")
  ELSE IF LineError(item) # "none"
       THEN IF q.attempt < MaxAttempts
            THEN [q EXCEPT !.pc = "line", !.i = 1, !.items = <<>>,
                           !.writes = <<>>, !.reads = {}, !.stale = FALSE,
                           !.peers = {}, !.attempt = @ + 1]
            ELSE Respond(q, 500, LineError(item))
  ELSE LET product == products[item.productId] IN
       [q EXCEPT !.reads = @ \cup {item.productId},
                 !.items = Append(@, OrderItem(product, item)),
                 !.writes = @ \o LineWrites(product, item),
                 !.i = @ + 1,
                 !.pc = IF q.i = Len(q.input.cart) THEN "commit" ELSE "line"]

\* one iteration of the item loop for request record q: transaction.get, the
\* checks, the item pushed and the writes buffered; a throw leaves the
\* transaction (nothing is committed) and the catch answers 500
LineStep(q) ==
  LET item == q.input.cart[q.i] IN
  IF q.writes # <<>> THEN Respond(q, 500, "ReadAfterWrite")
  ELSE IF LineError(item) # "none" THEN Respond(q, 500, LineError(item))
  ELSE LET product == products[item.productId] IN
       [q EXCEPT !.reads = @ \cup {item.productId},
                 !.items = Append(@, OrderItem(product, item)),
                 !.writes = @ \o LineWrites(product, item),
                 !.i = @ + 1,
                 !.pc = IF q.i = Len(q.input.cart) THEN "commit" ELSE "line"]

\* the writes that iteration hands to transaction.update
LineBuffered(q) ==
  LET item == q.input.cart[q.i] IN
  IF q.writes # <<>> \/ LineError(item) # "none" THEN <<>>
  ELSE LineWrites(products[item.productId], item)

\* mutant of Attempt: the attempts are not counted
AttemptUncounted(q, n) ==
  [q EXCEPT !.pc = "line", !.i = 1, !.items = <<>>, !.writes = <<>>,
            !.reads = {}, !.stale = FALSE, !.peers = {}, !.attempt = 1]

\* the update function starts (again): nothing read, nothing buffered
Attempt(q, n) ==
  [q EXCEPT !.pc = "line", !.i = 1, !.items = <<>>, !.writes = <<>>,
            !.reads = {}, !.stale = FALSE, !.peers = {}, !.attempt = n]

\* POST /orders: db.runTransaction starts its first attempt, which runs up to
\* the answer of its first transaction.get (the steps before it touch nothing
\* shared)
StartPlace(r, in) ==
  /\ CanStart(r)
  /\ LET q == Attempt([Idle EXCEPT !.kind = "place", !.input = in], 1) IN
       /\ rq' = [rq EXCEPT ![r] = LineStep(q)]
       /\ products' = BufferedUpdate(products, LineBuffered(q))
  /\ served' = served + 1
  /\ UNCHANGED <<orders, coupons, couponUsage, stock0>>

StartPlaceOrder(r) == \E in \in PlaceInputs : StartPlace(r, in)

\* a further iteration of the item loop
PlaceLine(r) ==
  /\ rq[r].kind = "place" /\ rq[r].pc = "line"
  /\ rq' = [rq EXCEPT ![r] = LineStep(rq[r])]
  /\ products' = BufferedUpdate(products, LineBuffered(rq[r]))
  /\ UNCHANGED <<orders, coupons, couponUsage, stock0, served>>

\* the commit finds no document it read changed: the buffered writes and the
\* new order document are applied together, 201
PlaceCommit(r) ==
  /\ rq[r].kind = "place" /\ rq[r].pc = "commit"
  /\ ~rq[r].stale
  /\ products' = ApplyWrites(products, rq[r].writes)
  /\ \E n \in OrderNumbers(rq[r]) :
       orders' = Append(orders, NewOrder(rq[r].input.user, rq[r].items, n))
  /\ rq' = [AddPeer(MarkStale(rq, r, WritePids(rq[r].writes)),
                    r, Len(orders) + 1)
              EXCEPT ![r] = Respond(rq[r], 201, "none")]
  /\ UNCHANGED <<coupons, couponUsage, stock0, served>>

\* the commit is refused and attempts remain: the update function runs again,
\* up to the answer of its first transaction.get
PlaceRetry(r) ==
  /\ rq[r].kind = "place" /\ rq[r].pc = "commit"
  /\ rq[r].stale
  /\ rq[r].attempt < MaxAttempts
  /\ LET q == Attempt(rq[r], rq[r].attempt + 1) IN
       /\ rq' = [rq EXCEPT ![r] = LineStep(q)]
       /\ products' = BufferedUpdate(products, LineBuffered(q))
  /\ UNCHANGED <<orders, coupons, couponUsage, stock0, served>>

\* the commit is refused on the last attempt: runTransaction rejects, 500
PlaceExhausted(r) ==
  /\ rq[r].kind = "place" /\ rq[r].pc = "commit"
  /\ rq[r].stale
  /\ rq[r].attempt >= MaxAttempts
  /\ rq' = [rq EXCEPT ![r] = Respond(rq[r], 500, "ConcurrencyConflict")]
  /\ UNCHANGED <<products, orders, coupons, couponUsage, stock0, served>>

\* ------------------------------------------------------- product price
\* PATCH /products/:id/price: a plain write to the product document
UpdatePrice(p) ==
  /\ p \in DOMAIN products
  /\ \E price \in Prices :
       products' = [products EXCEPT ![p].price = price]
  /\ rq' = MarkStale(rq, 0, {p})
  /\ UNCHANGED <<orders, coupons, couponUsage, stock0, served>>

\* --------------------------------------------------------- cancel order
CancelInputs ==
  [orderId : 1..MaxOrders, user : {"u1", AdminUser}]

\* line 383: role 'GronderfulBlogs' is the admin role
IsAdmin(user) == user = AdminUser

\* line 392
Cancellable(status) == status \in {"pending", "processing"}

\* lines 403-409: one increment per item of the order read before the
\* transaction
RECURSIVE CancelWrites(_)
CancelWrites(items) ==
  IF items = <<>> THEN <<>>
  ELSE <<[op |-> "incStock", pid |-> Head(items).productId,
          by |-> Head(items).quantity]>> \o CancelWrites(Tail(items))

\* mutant of CancelStart: the owner is compared only when the order has one,
\* order.userId && order.userId !== req.user.id
CancelStartOwnerOptional(r, in) ==
  /\ CanStart(r)
  /\ LET started == [Idle EXCEPT !.kind = "cancel", !.input = in] IN
     IF in.orderId \notin DOMAIN orders
     THEN rq' = [rq EXCEPT ![r] = Respond(started, 404, "NOT_FOUND")]
     ELSE LET order == orders[in.orderId] IN
          IF ~IsAdmin(in.user) /\ order.userId # Guest
             /\ order.userId # in.user
          THEN rq' = [rq EXCEPT ![r] = Respond(started, 403, "FORBIDDEN")]
          ELSE IF ~Cancellable(order.status)
          THEN rq' = [rq EXCEPT ![r] =
                        Respond(started, 400, "INVALID_STATUS")]
          ELSE rq' = [rq EXCEPT ![r] =
                        [started EXCEPT !.pc = "cancelTx",
                                        !.snap = order.items]]
  /\ served' = served + 1
  /\ UNCHANGED <<products, orders, coupons, couponUsage, stock0>>

\* POST /orders/:id/cancel up to the transaction: orderRef.get() outside any
\* transaction, then the 404, 403 and 400 answers. in.user is req.user.id, the
\* uid of the token; a guest order's userId (null) equals no uid
CancelStart(r, in) ==
  /\ CanStart(r)
  /\ LET started == [Idle EXCEPT !.kind = "cancel", !.input = in] IN
     IF in.orderId \notin DOMAIN orders
     THEN rq' = [rq EXCEPT ![r] = Respond(started, 404, "NOT_FOUND")]
     ELSE LET order == orders[in.orderId] IN
          IF ~IsAdmin(in.user) /\ order.userId # in.user
          THEN rq' = [rq EXCEPT ![r] = Respond(started, 403, "FORBIDDEN")]
          ELSE IF ~Cancellable(order.status)
          THEN rq' = [rq EXCEPT ![r] =
                        Respond(started, 400, "INVALID_STATUS")]
          ELSE rq' = [rq EXCEPT ![r] =
                        [started EXCEPT !.pc = "cancelTx",
                                        !.snap = order.items]]
  /\ served' = served + 1
  /\ UNCHANGED <<products, orders, coupons, couponUsage, stock0>>

CancelRead(r) == \E in \in CancelInputs : CancelStart(r, in)

\* mutant of CancelCommit: the cancel also gives the order's redemptions back
CancelCommitReleasingCoupons(r) ==
  /\ rq[r].kind = "cancel" /\ rq[r].pc = "cancelTx"
  /\ products' = ApplyWrites(products, CancelWrites(rq[r].snap))
  /\ orders' = [orders EXCEPT ![rq[r].input.orderId].status = "cancelled",
                               ![rq[r].input.orderId].cancels = @ + 1]
  /\ couponUsage' = SelectSeq(couponUsage,
                              LAMBDA u : u.orderId # rq[r].input.orderId)
  /\ coupons' = [c \in DOMAIN coupons |->
                   [coupons[c] EXCEPT !.usedCount =
                      IF \E k \in DOMAIN couponUsage :
                           /\ couponUsage[k].couponId = c
                           /\ couponUsage[k].orderId = rq[r].input.orderId
                      THEN 0 ELSE @]]
  /\ rq' = [MarkStale(rq, r, WritePids(CancelWrites(rq[r].snap)))
              EXCEPT ![r] = Respond(rq[r], 200, "none")]
  /\ UNCHANGED <<stock0, served>>

\* lines 401-419: the transaction reads nothing, so its commit never
\* conflicts; the increments and the status write are applied together, 200
CancelCommit(r) ==
  /\ rq[r].kind = "cancel" /\ rq[r].pc = "cancelTx"
  /\ products' = ApplyWrites(products, CancelWrites(rq[r].snap))
  /\ orders' = [orders EXCEPT ![rq[r].input.orderId].status = "cancelled",
                               ![rq[r].input.orderId].cancels = @ + 1]
  /\ rq' = [MarkStale(rq, r, WritePids(CancelWrites(rq[r].snap)))
              EXCEPT ![r] = Respond(rq[r], 200, "none")]
  /\ UNCHANGED <<coupons, couponUsage, stock0, served>>

\* ------------------------------------------------------- admin tracking
\* PATCH /orders/:id/tracking: the status becomes shipped
UpdateTracking(id) ==
  /\ id \in DOMAIN orders
  /\ orders' = [orders EXCEPT ![id].status = "shipped"]
  /\ UNCHANGED <<products, coupons, couponUsage, rq, stock0, served>>

\* --------------------------------------------------------- admin status
Statuses == {"pending", "processing", "shipped", "delivered", "cancelled"}

\* PATCH /orders/:id/status: the status becomes the one in the request body
UpdateStatus(id, status) ==
  /\ id \in DOMAIN orders
  /\ orders' = [orders EXCEPT ![id].status = status]
  /\ UNCHANGED <<products, coupons, couponUsage, rq, stock0, served>>

\* the response has been delivered; the slot serves the next request
Finish(r) ==
  /\ rq[r].pc = "done"
  /\ rq' = [rq EXCEPT ![r] = Idle]
  /\ UNCHANGED <<products, orders, coupons, couponUsage, stock0, served>>

\* ---------------------------------------------------------------- coupons
CouponIds == {"c1", "cx"}
Now == 2
Dates == {0, Now - 1, Now, Now + 1}

\* code.toUpperCase()
ToUpperCase(code) ==
  CASE code = "save10" -> "SAVE10"
    [] code = "nope" -> "NOPE"
    [] OTHER -> code

\* .where('code', '==', ...).where('isActive', '==', true)
FindCoupon(cs, code) ==
  {c \in DOMAIN cs : cs[c].code = ToUpperCase(code) /\ cs[c].isActive}

\* .where('couponId', '==', id).where('userId', '==', userId) ... .size
UserUsage(usage, c, user) ==
  Cardinality({k \in DOMAIN usage :
                 usage[k].couponId = c /\ usage[k].userId = user})

NotStarted(coupon) == coupon.startDate # 0 /\ coupon.startDate > Now

Expired(coupon) == coupon.expiryDate # 0 /\ coupon.expiryDate < Now

LimitReached(coupon) ==
  coupon.maxUses # 0 /\ coupon.usedCount >= coupon.maxUses

ChecksUserLimit(coupon, in) == in.userId # Guest /\ coupon.maxUsesPerUser # 0

UserLimitReached(coupon, n) == n >= coupon.maxUsesPerUser

MinimumNotMet(coupon, in) ==
  coupon.minOrderAmount # 0 /\ in.orderTotal < coupon.minOrderAmount

CategoryNotApplicable(coupon, in) ==
  /\ coupon.applicableCategories # {}
  /\ in.categoryId = "none" \/ in.categoryId \notin coupon.applicableCategories

ProductNotApplicable(coupon, in) ==
  /\ coupon.applicableProducts # {}
  /\ in.productIds \cap coupon.applicableProducts = {}

\* mutant of EarlyError: the expiry date is looked at before the start date
EarlyErrorExpiryFirst(coupon) ==
  IF Expired(coupon) THEN "COUPON_EXPIRED"
  ELSE IF NotStarted(coupon) THEN "COUPON_NOT_STARTED"
  ELSE IF LimitReached(coupon) THEN "COUPON_LIMIT_REACHED"
  ELSE "none"

\* the checks on the coupon document alone, before the usage query
EarlyError(coupon) ==
  IF NotStarted(coupon) THEN "COUPON_NOT_STARTED"
  ELSE IF Expired(coupon) THEN "COUPON_EXPIRED"
  ELSE IF LimitReached(coupon) THEN "COUPON_LIMIT_REACHED"
  ELSE "none"

\* the checks against the request, after the usage query
LateError(coupon, in) ==
  IF MinimumNotMet(coupon, in) THEN "MINIMUM_NOT_MET"
  ELSE IF CategoryNotApplicable(coupon, in) THEN "CATEGORY_NOT_APPLICABLE"
  ELSE IF ProductNotApplicable(coupon, in) THEN "PRODUCT_NOT_APPLICABLE"
  ELSE "none"

\* a nullable number of the coupon document: <<>> is null, <<n>> is n
Null == <<>>

\* if (coupon.maxDiscountAmount): neither null nor 0
Truthy(x) == x # Null /\ x[1] # 0

Min(a, b) == IF a <= b THEN a ELSE b

\* lines 137-149: discountAmount in hundredths of a cent, for orderTotal and
\* the coupon's amounts in cents and discountValue in percent or in cents
DiscountAmount(coupon, orderTotal) ==
  LET byType ==
        IF coupon.discountType = "percentage"
          THEN IF Truthy(coupon.maxDiscountAmount)
                 THEN Min(orderTotal * coupon.discountValue,
                          coupon.maxDiscountAmount[1] * 100)
                 ELSE orderTotal * coupon.discountValue
        ELSE IF coupon.discountType = "fixed" THEN coupon.discountValue * 100
        ELSE 0
  IN Min(byType, orderTotal * 100)

\* line 158: Math.round(discountAmount * 100) / 100, in cents
RoundToCents(hundredths) == (hundredths + 50) \div 100

\* res.status(400).json({error})
ValidateRespond(q, e) == Respond(q, 400, e)

\* lines 100-163: the checks against the request, then the discount, 200
ValidateAnswer(q, coupon) ==
  IF LateError(coupon, q.input) # "none"
    THEN ValidateRespond(q, LateError(coupon, q.input))
    ELSE [Respond(q, 200, "none") EXCEPT
            !.discountAmount =
               RoundToCents(DiscountAmount(coupon, q.input.orderTotal))]

ValidateInputs ==
  [code : {"save10", "nope"}, orderTotal : {1000, 3000},
   userId : {Guest, "u1"}, categoryId : {"none", "cat1", "cat2"},
   productIds : {{}, {"p1"}, {"p2"}}]

ValidateProbes ==
  {[code |-> "save10", orderTotal |-> 3000, userId |-> "u1",
    categoryId |-> "none", productIds |-> {}]}

DiscountProbes ==
  {[code |-> "save10", orderTotal |-> t, userId |-> Guest,
    categoryId |-> "none", productIds |-> {}] : t \in {0, 1005, 3000, 10000}}

\* POST /validate up to the usage query (or to the answer, when the query is
\* not made)
ValidateFind(r, in) ==
  /\ CanStart(r)
  /\ LET q == [Idle EXCEPT !.kind = "validate", !.input = in]
         found == FindCoupon(coupons, in.code)
     IN IF found = {}
          THEN rq' = [rq EXCEPT ![r] = Respond(q, 404, "INVALID_COUPON")]
          ELSE \E c \in found :
                 LET coupon == coupons[c] IN
                 rq' = [rq EXCEPT ![r] =
                   IF EarlyError(coupon) # "none"
                     THEN ValidateRespond(q, EarlyError(coupon))
                   ELSE IF ChecksUserLimit(coupon, in)
                     THEN [q EXCEPT !.pc = "validateUsage",
                                    !.snap = [id |-> c, coupon |-> coupon]]
                   ELSE ValidateAnswer(q, coupon)]
  /\ UNCHANGED <<products, orders, coupons, couponUsage, stock0, served>>

\* POST /validate from the usage query on
ValidateUsage(r) ==
  /\ rq[r].pc = "validateUsage"
  /\ LET coupon == rq[r].snap.coupon
         in == rq[r].input
         n == UserUsage(couponUsage, rq[r].snap.id, in.userId)
     IN rq' = [rq EXCEPT ![r] =
          IF UserLimitReached(coupon, n)
            THEN ValidateRespond(rq[r], "USER_LIMIT_REACHED")
            ELSE ValidateAnswer(rq[r], coupon)]
  /\ UNCHANGED <<products, orders, coupons, couponUsage, stock0, served>>

ApplyInputs == [couponId : CouponIds, orderId : {1}, user : {"u1", "u2"}]

\* POST /apply: db.collection('couponUsage').add(usageData)
ApplyAdd(r) ==
  /\ CanStart(r)
  /\ \E in \in ApplyInputs :
       /\ rq' = [rq EXCEPT ![r] =
                   [Idle EXCEPT !.kind = "apply", !.input = in,
                                !.pc = "applyInc"]]
       /\ couponUsage' = Append(couponUsage,
                           [couponId |-> in.couponId, orderId |-> in.orderId,
                            userId |-> in.user])
  /\ served' = served + 1
  /\ UNCHANGED <<products, orders, coupons, stock0>>

\* POST /apply: coupons.doc(couponId).update({usedCount: increment(1)}), which
\* rejects for a missing document
ApplyInc(r) ==
  /\ rq[r].pc = "applyInc"
  /\ LET c == rq[r].input.couponId IN
     IF c \in DOMAIN coupons
       THEN /\ coupons' = [coupons EXCEPT ![c].usedCount = @ + 1]
            /\ rq' = [rq EXCEPT ![r] = Respond(rq[r], 200, "none")]
       ELSE /\ coupons' = coupons
            /\ rq' = [rq EXCEPT ![r] = Respond(rq[r], 500, "SERVER_ERROR")]
  /\ UNCHANGED <<products, orders, couponUsage, stock0, served>>

\* ----------------------------------------------------------------- init
InitProducts ==
  {[p \in Products |->
      [isActive |-> (p = "p1"),
       price |-> 1000,
       stockQuantity |-> IF p = "p1" THEN s1 ELSE MaxStock,
       variants |-> [v \in VariantsOf(p) |->
                       [price |-> 0, stock |-> 1]]]]
   : s1 \in 0..MaxStock}

NoCoupons == <<>>

Init ==
  /\ products \in InitProducts
  /\ stock0 = [p \in Products |->
                 [stockQuantity |-> products[p].stockQuantity,
                  variants |-> [v \in DOMAIN products[p].variants |->
                                  products[p].variants[v].stock]]]
  /\ orders = <<>>
  /\ coupons = NoCoupons
  /\ couponUsage = <<>>
  /\ rq = [r \in Reqs |-> Idle]
  /\ served = 0

NextPlace ==
  \/ \E r \in Reqs : StartPlaceOrder(r)
  \/ \E r \in Reqs : PlaceLine(r)
  \/ \E r \in Reqs : PlaceCommit(r)
  \/ \E r \in Reqs : PlaceRetry(r)
  \/ \E r \in Reqs : PlaceExhausted(r)
  \/ \E p \in Products : UpdatePrice(p)

SpecPlace == Init /\ [][NextPlace]_vars

NextCancel ==
  \/ NextPlace
  \/ \E r \in Reqs : CancelRead(r)
  \/ \E r \in Reqs : CancelCommit(r)
  \/ \E id \in 1..MaxOrders : UpdateTracking(id)
  \/ \E r \in Reqs : Finish(r)

SpecCancel == Init /\ [][NextCancel]_vars

\* a coupon document as POST / (create) and the redemptions so far leave it
CouponDoc(active, start, expiry, maxUses, used, perUser, minimum, cats, prods) ==
  [code |-> "SAVE10", isActive |-> active, startDate |-> start,
   expiryDate |-> expiry, maxUses |-> maxUses, usedCount |-> used,
   maxUsesPerUser |-> perUser, minOrderAmount |-> minimum,
   applicableCategories |-> cats, applicableProducts |-> prods,
   discountType |-> "percentage", discountValue |-> 10,
   maxDiscountAmount |-> Null]

Usage(c, u) == [couponId |-> c, orderId |-> 1, userId |-> u]

InitStore ==
  /\ products \in {ps \in InitProducts : ps["p1"].stockQuantity = MaxStock}
  /\ stock0 = [p \in Products |->
                 [stockQuantity |-> products[p].stockQuantity,
                  variants |-> [v \in DOMAIN products[p].variants |->
                                  products[p].variants[v].stock]]]
  /\ orders = <<>>
  /\ rq = [r \in Reqs |-> Idle]
  /\ served = 0

\* one fresh coupon, limited to one use in all and one per user
InitCoupons ==
  /\ InitStore
  /\ coupons = [c \in {"c1"} |-> CouponDoc(TRUE, 0, 0, 1, 0, 1, 0, {}, {})]
  /\ couponUsage = <<>>

NextCoupons ==
  \/ \E r \in Reqs : ApplyAdd(r)
  \/ \E r \in Reqs : ApplyInc(r)
  \/ \E r \in Reqs : \E in \in ValidateProbes : ValidateFind(r, in)
  \/ \E r \in Reqs : ValidateUsage(r)
  \/ \E r \in Reqs : Finish(r)

SpecCoupons == InitCoupons /\ [][NextCoupons]_vars

\* one coupon in any configuration, used not at all or once by u1 or by u2
InitValidate ==
  /\ InitStore
  /\ \E active \in BOOLEAN, start \in Dates, expiry \in Dates,
        maxUses \in {0, 1}, perUser \in {0, 1}, minimum \in {0, 2000},
        cats \in {{}, {"cat1"}}, prods \in {{}, {"p1"}},
        usage \in {<<>>, <<Usage("c1", "u1")>>, <<Usage("c1", "u2")>>} :
       /\ coupons = [c \in {"c1"} |->
                       CouponDoc(active, start, expiry, maxUses, Len(usage),
                                 perUser, minimum, cats, prods)]
       /\ couponUsage = usage

\* orders placed and cancelled one request at a time, with the admin's status
\* and tracking updates
StatusInputs == {[cart |-> <<Line("p1", 1, NoVariant)>>, user |-> "u1"]}

NextStatus ==
  \/ \E in \in StatusInputs : StartPlace(1, in)
  \/ PlaceCommit(1)
  \/ CancelRead(1)
  \/ CancelCommit(1)
  \/ \E id \in 1..MaxOrders : \E status \in Statuses : UpdateStatus(id, status)
  \/ \E id \in 1..MaxOrders : UpdateTracking(id)
  \/ Finish(1)

SpecStatus == Init /\ [][NextStatus]_vars

\* concurrent PlaceOrder requests with both products on sale
InitNumbers ==
  /\ products = [p \in Products |->
                   [isActive |-> TRUE, price |-> 1000,
                    stockQuantity |-> MaxStock,
                    variants |-> [v \in VariantsOf(p) |->
                                    [price |-> 0, stock |-> 1]]]]
  /\ stock0 = [p \in Products |->
                 [stockQuantity |-> products[p].stockQuantity,
                  variants |-> [v \in DOMAIN products[p].variants |->
                                  products[p].variants[v].stock]]]
  /\ orders = <<>>
  /\ coupons = NoCoupons
  /\ couponUsage = <<>>
  /\ rq = [r \in Reqs |-> Idle]
  /\ served = 0

SpecNumbers == InitNumbers /\ [][NextPlace]_vars

\* one PlaceOrder request at a time against a product whose document an admin
\* keeps writing; the handler's own steps are taken whenever they stay
\* enabled (the event loop runs every continuation, the store answers every
\* call), the admin's writes come as they may
PlaceSteps(r) ==
  PlaceLine(r) \/ PlaceCommit(r) \/ PlaceRetry(r) \/ PlaceExhausted(r)

NextPlaceLive ==
  \/ StartPlaceOrder(1)
  \/ PlaceSteps(1)
  \/ \E p \in Products : UpdatePrice(p)

SpecPlaceLive == Init /\ [][NextPlaceLive]_vars /\ WF_vars(PlaceSteps(1))

\* products at several prices, one coupon, orders placed and coupons applied
\* to them one request at a time
PricingPrices == {1000, 1005, 5000, 5001}

PricingInputs ==
  {[cart |-> <<PricedLine("p1", q, NoVariant, price)>>, user |-> "u1"] :
     q \in 1..MaxQty, price \in {0, 1}}
  \cup {[cart |-> <<PricedLine("p1", 1, v, price)>>, user |-> "u1"] :
          v \in {"v1", "vx"}, price \in {0, 1}}

InitPricing ==
  /\ \E price \in PricingPrices, variantPrice \in {0, 500} :
       products = [p \in Products |->
                     [isActive |-> (p = "p1"), price |-> price,
                      stockQuantity |-> MaxStock,
                      variants |-> [v \in VariantsOf(p) |->
                                      [price |-> variantPrice, stock |-> 1]]]]
  /\ stock0 = [p \in Products |->
                 [stockQuantity |-> products[p].stockQuantity,
                  variants |-> [v \in DOMAIN products[p].variants |->
                                  products[p].variants[v].stock]]]
  /\ orders = <<>>
  /\ rq = [r \in Reqs |-> Idle]
  /\ served = 0
  /\ \E type \in {"percentage", "freeShipping"} :
       coupons = [c \in {"c1"} |->
                    [CouponDoc(TRUE, 0, 0, 0, 0, 0, 0, {}, {}) EXCEPT
                       !.discountType = type]]
  /\ couponUsage = <<>>

NextPricing ==
  \/ \E in \in PricingInputs : StartPlace(1, in)
  \/ PlaceCommit(1)
  \/ ApplyAdd(1)
  \/ ApplyInc(1)
  \/ Finish(1)

SpecPricing == InitPricing /\ [][NextPricing]_vars

\* a coupon that passes every check, with the discount fields POST /admin
\* accepts: discountValue >= 0 and at most 100 percent, maxDiscountAmount
\* absent or >= 0
DiscountConfigs ==
  {cfg \in [discountType : {"percentage", "fixed", "freeShipping"},
            discountValue : {0, 10, 50, 100, 5000},
            maxDiscountAmount : {Null, <<0>>, <<500>>}] :
     cfg.discountType = "percentage" => cfg.discountValue <= 100}

InitDiscount ==
  /\ InitStore
  /\ \E cfg \in DiscountConfigs :
       coupons = [c \in {"c1"} |->
                    [CouponDoc(TRUE, 0, 0, 0, 0, 0, 0, {}, {}) EXCEPT
                       !.discountType = cfg.discountType,
                       !.discountValue = cfg.discountValue,
                       !.maxDiscountAmount = cfg.maxDiscountAmount]]
  /\ couponUsage = <<>>

NextDiscount ==
  \/ \E in \in DiscountProbes : ValidateFind(1, in)
  \/ Finish(1)

SpecDiscount == InitDiscount /\ [][NextDiscount]_vars

\* validation only reads, so one request at a time shows all it can do
NextValidate ==
  \/ \E in \in ValidateInputs : ValidateFind(1, in)
  \/ ValidateUsage(1)
  \/ Finish(1)

SpecValidate == InitValidate /\ [][NextValidate]_vars

\* ------------------------------------------------------------ properties
RECURSIVE ItemsQty(_, _)
ItemsQty(items, p) ==
  IF items = <<>> THEN 0
  ELSE (IF Head(items).productId = p THEN Head(items).quantity ELSE 0)
       + ItemsQty(Tail(items), p)

RECURSIVE OrderedQty(_, _)
OrderedQty(os, p) ==
  IF os = <<>> THEN 0
  ELSE ItemsQty(Head(os).items, p) + OrderedQty(Tail(os), p)

Store == <<products, orders, coupons, couponUsage>>

\* the step is one of request r's own
OwnStep(r) ==
  \/ rq'[r].pc # rq[r].pc
  \/ rq'[r].i # rq[r].i
  \/ rq'[r].attempt # rq[r].attempt

IsPlaceOf(q, cart) == q.kind = "place" /\ q.input.cart = cart

\* C1: under concurrent PlaceOrder requests (retries included) no product's
\* stockQuantity is ever negative and the quantities of the committed orders
\* of a product never add up to more than its initial stock, so two requests
\* whose combined demand exceeds the stock never both commit.
C1_StockNeverOversold ==
  \A p \in Products :
    /\ products[p].stockQuantity >= 0
    /\ OrderedQty(orders, p) <= stock0[p].stockQuantity

\* a request has read enough stock, another order has committed meanwhile and
\* what is left no longer covers the request's buffered decrement
C1_Witness ==
  \E r \in Reqs :
    /\ rq[r].kind = "place" /\ rq[r].pc = "commit" /\ rq[r].stale
    /\ Len(orders) >= 1
    /\ products["p1"].stockQuantity < rq[r].items[1].quantity

\* C2: with stock 1 and two PlaceOrder requests for quantity 1 as the only
\* requests, running concurrently (the commit of one aborts the first attempt
\* of the other), when the second one answers exactly one of the two has got
\* 201, the other 409 InsufficientStock, and the stock is 0.
C2_OneCreatedOtherConflict ==
  [][\A r, s \in Reqs :
       ( /\ r # s
         /\ stock0["p1"].stockQuantity = 1
         /\ \A t \in Reqs \ {r, s} : rq[t].pc = "idle"
         /\ IsPlaceOf(rq[s], <<Line("p1", 1, NoVariant)>>)
         /\ rq[s].pc = "done"
         /\ IsPlaceOf(rq[r], <<Line("p1", 1, NoVariant)>>)
         /\ rq[r].pc = "commit" /\ rq[r].stale /\ rq[r].attempt = 1
         /\ rq'[r].pc = "done" )
       => /\ products'["p1"].stockQuantity = 0
          /\ {rq'[r].code, rq'[s].code} = {201, 409}
          /\ \A t \in {r, s} :
               rq'[t].code = 409 => rq'[t].error = "InsufficientStock"]_vars

\* C3: every step of a PlaceOrder request other than its successful commit,
\* and so every step of a request that ends in failure, leaves the products
\* (stock and variant stock), the orders, the coupons and the coupon usage
\* as they were.
C3_FailedPlaceLeavesStore ==
  [][\A r \in Reqs :
       ( /\ rq'[r].kind = "place"
         /\ OwnStep(r)
         /\ ~(rq'[r].pc = "done" /\ rq'[r].code = 201) )
       => Store' = Store]_vars

\* a two-line order has failed after its first line's decrement was buffered,
\* another order has failed on exhausted retries, and nothing was committed
C3_Witness ==
  \E r, s \in Reqs :
    /\ rq[r].pc = "done" /\ rq[r].code = 500
    /\ rq[r].error = "ReadAfterWrite"
    /\ rq[s].pc = "done" /\ rq[s].code = 500
    /\ rq[s].error = "ConcurrencyConflict"
    /\ orders = <<>>
    /\ \A p \in Products : products[p].stockQuantity = stock0[p].stockQuantity

\* the stock of product p and of its variants, as stock0 records it
StockOf(p) ==
  [stockQuantity |-> products[p].stockQuantity,
   variants |-> [v \in DOMAIN products[p].variants |->
                   products[p].variants[v].stock]]

Quiescent == \A r \in Reqs : rq[r].pc \in {"idle", "done"}

\* C4: once every order placed has been cancelled (by one cancel each) and no
\* request is running, every product's stockQuantity and every variant's
\* stock are back at their values before the orders.
C4_CancelRestoresStock ==
  ( /\ Quiescent
    /\ \A o \in DOMAIN orders :
         orders[o].status = "cancelled" /\ orders[o].cancels = 1 )
  => \A p \in Products : StockOf(p) = stock0[p]

\* a cancel request for an order that exists, by its owner or an admin
AuthorizedCancelArrives(r) ==
  /\ rq[r].pc = "idle" /\ rq'[r].kind = "cancel"
  /\ rq'[r].input.orderId \in DOMAIN orders
  /\ \/ IsAdmin(rq'[r].input.user)
     \/ orders[rq'[r].input.orderId].userId = rq'[r].input.user

\* C5: a cancel request for an order that is already cancelled or shipped is
\* answered 400 INVALID_STATUS and changes nothing in the store, and no
\* order's quantities are added back to stock more than once, whatever the
\* interleaving of the cancel requests.
C5_CancelGuardAndSingleRestock ==
  /\ [][\A r \in Reqs :
          ( /\ AuthorizedCancelArrives(r)
            /\ orders[rq'[r].input.orderId].status \in {"cancelled", "shipped"} )
          => /\ rq'[r].pc = "done"
             /\ rq'[r].code = 400 /\ rq'[r].error = "INVALID_STATUS"
             /\ Store' = Store]_vars
  /\ [](\A o \in DOMAIN orders : orders[o].cancels <= 1)

IsApplyOf(q, c) == q.kind = "apply" /\ q.input.couponId = c

CouponUsageCount(c) ==
  Cardinality({k \in DOMAIN couponUsage : couponUsage[k].couponId = c})

\* C6: two redemptions of the coupon with maxUses = 1 by two different users
\* that overlap (one recorded its usage first and answers last), as the only
\* redemptions there have been: when the last one answers, exactly one of
\* the two has succeeded and the other has failed with COUPON_LIMIT_REACHED.
C6_OneRedemptionWins ==
  [][\A r, s \in Reqs :
       ( /\ r # s
         /\ coupons["c1"].maxUses = 1
         /\ IsApplyOf(rq[r], "c1") /\ IsApplyOf(rq[s], "c1")
         /\ rq[r].input.user # rq[s].input.user
         /\ \A t \in Reqs \ {r, s} : rq[t].pc = "idle"
         /\ Len(couponUsage) = 2
         /\ couponUsage[1].userId = rq[r].input.user
         /\ rq[s].pc = "done"
         /\ rq[r].pc = "applyInc"
         /\ rq'[r].pc = "done" )
       => /\ {rq'[r].code, rq'[s].code} = {200, 400}
          /\ \A t \in {r, s} :
               rq'[t].code = 400 => rq'[t].error = "COUPON_LIMIT_REACHED"
          /\ coupons'["c1"].usedCount = 1]_vars

\* C7: a coupon with a maxUses limit never has usedCount above it.
C7_UsedCountWithinLimit ==
  \A c \in DOMAIN coupons :
    coupons[c].maxUses # 0 => coupons[c].usedCount <= coupons[c].maxUses

\* C8: for a coupon with a maxUsesPerUser limit, no user has more usage
\* records of it than the limit.
C8_UserUsageWithinLimit ==
  \A c \in DOMAIN coupons : \A u \in {"u1", "u2"} :
    coupons[c].maxUsesPerUser # 0
      => UserUsage(couponUsage, c, u) <= coupons[c].maxUsesPerUser

\* C9: whenever no request is in flight, every coupon id has as many usage
\* records as its usedCount says, a coupon id without a document has none.
C9_UsageMatchesUsedCount ==
  Quiescent =>
    \A c \in CouponIds :
      CouponUsageCount(c) =
        IF c \in DOMAIN coupons THEN coupons[c].usedCount ELSE 0

\* the checks of a validation, numbered in the order the claim gives them
CheckFails(k, in) ==
  IF k = 1 THEN FindCoupon(coupons, in.code) = {}
  ELSE LET c == CHOOSE c \in FindCoupon(coupons, in.code) : TRUE
           coupon == coupons[c]
       IN CASE k = 2 -> coupon.startDate # 0 /\ coupon.startDate > Now
            [] k = 3 -> coupon.expiryDate # 0 /\ coupon.expiryDate < Now
            [] k = 4 -> coupon.maxUses # 0
                          /\ coupon.usedCount >= coupon.maxUses
            [] k = 5 -> /\ in.userId # Guest
                        /\ coupon.maxUsesPerUser # 0
                        /\ UserUsage(couponUsage, c, in.userId)
                             >= coupon.maxUsesPerUser
            [] k = 6 -> coupon.minOrderAmount # 0
                          /\ in.orderTotal < coupon.minOrderAmount
            [] k = 7 -> /\ coupon.applicableCategories # {}
                        /\ in.categoryId \notin coupon.applicableCategories
            [] k = 8 -> /\ coupon.applicableProducts # {}
                        /\ in.productIds \cap coupon.applicableProducts = {}

CheckError ==
  <<"INVALID_COUPON", "COUPON_NOT_STARTED", "COUPON_EXPIRED",
    "COUPON_LIMIT_REACHED", "USER_LIMIT_REACHED", "MINIMUM_NOT_MET",
    "CATEGORY_NOT_APPLICABLE", "PRODUCT_NOT_APPLICABLE">>

\* the checks that fail for a request (none beyond the first when the coupon
\* is not found)
FailingChecks(in) ==
  IF CheckFails(1, in) THEN {1}
  ELSE {k \in DOMAIN CheckError \ {1} : CheckFails(k, in)}

FirstFailing(in) ==
  CHOOSE k \in FailingChecks(in) : \A j \in FailingChecks(in) : k <= j

\* C10: against an unchanging store, a validation answers with the error of
\* the first check that fails, in the order existence and active flag, start
\* date, expiry date, usage limit, per-user limit, minimum order amount,
\* category, product; it reports the coupon valid only if no check fails.
C10_FirstFailingCheckReported ==
  \A r \in Reqs :
    (rq[r].kind = "validate" /\ rq[r].pc = "done") =>
       IF FailingChecks(rq[r].input) = {}
         THEN rq[r].code = 200 /\ rq[r].error = "none"
         ELSE /\ rq[r].error = CheckError[FirstFailing(rq[r].input)]
              /\ rq[r].code # 200

\* a validation answered USER_LIMIT_REACHED although two later checks and no
\* earlier one fail as well
C10_Witness ==
  \E r \in Reqs :
    /\ rq[r].kind = "validate" /\ rq[r].pc = "done"
    /\ rq[r].error = "USER_LIMIT_REACHED"
    /\ FailingChecks(rq[r].input) = {5, 6, 8}

\* the discount of the coupon for the order total as the claim words it, to
\* the cent
ClaimedDiscount(coupon, orderTotal) ==
  LET byType ==
        CASE coupon.discountType = "percentage" ->
               IF coupon.maxDiscountAmount # Null
                 THEN Min(RoundToCents(orderTotal * coupon.discountValue),
                          coupon.maxDiscountAmount[1])
                 ELSE RoundToCents(orderTotal * coupon.discountValue)
          [] coupon.discountType = "fixed" -> coupon.discountValue
          [] coupon.discountType = "freeShipping" -> 0
  IN Min(byType, orderTotal)

\* C11: a validation that finds the coupon valid answers the discount
\* orderTotal * value / 100 capped at maxDiscountAmount when the coupon has
\* one, value for a fixed coupon, 0 for a freeShipping coupon, in each case
\* capped at orderTotal, and the answer is between 0 and orderTotal.
C11_DiscountAsSpecified ==
  \A r \in Reqs :
    (rq[r].kind = "validate" /\ rq[r].pc = "done" /\ rq[r].code = 200) =>
       /\ rq[r].discountAmount =
            ClaimedDiscount(coupons["c1"], rq[r].input.orderTotal)
       /\ 0 <= rq[r].discountAmount
       /\ rq[r].discountAmount <= rq[r].input.orderTotal

\* a freeShipping coupon has been applied to order id
FreeShippingApplied(id) ==
  \E k \in DOMAIN couponUsage :
    /\ couponUsage[k].orderId = id
    /\ couponUsage[k].couponId \in DOMAIN coupons
    /\ coupons[couponUsage[k].couponId].discountType = "freeShipping"

\* C12: when no request is in flight, the shipping of an order is 0 if its
\* subtotal is above 50.00 or a freeShipping coupon has been applied to it,
\* and the flat fee otherwise.
C12_ShippingRule ==
  Quiescent =>
    \A id \in DOMAIN orders :
      orders[id].shipping =
        IF orders[id].subtotal > 5000 \/ FreeShippingApplied(id)
        THEN 0 ELSE ShippingFee

\* the discount, in cents, of the coupons applied to order id
RECURSIVE UsageDiscount(_, _)
UsageDiscount(usage, id) ==
  IF usage = <<>> THEN 0
  ELSE UsageDiscount(Tail(usage), id)
       + (IF Head(usage).orderId = id /\ Head(usage).couponId \in DOMAIN coupons
          THEN RoundToCents(DiscountAmount(coupons[Head(usage).couponId],
                                           orders[id].subtotal))
          ELSE 0)

\* an amount in mills rounded half-up to whole cents, in mills
RoundHalfUp(mills) ==
  ((mills + MillsPerCent \div 2) \div MillsPerCent) * MillsPerCent

\* C13: when no request is in flight, every order has tax = 10% of its
\* subtotal and total = subtotal - discount + tax + shipping rounded half-up
\* to the cent, the discount being that of the coupons applied to the order.
C13_TaxAndRoundedTotal ==
  Quiescent =>
    \A id \in DOMAIN orders :
      LET o == orders[id] IN
      /\ o.tax * 10 = o.subtotal * MillsPerCent
      /\ o.total = RoundHalfUp((o.subtotal - UsageDiscount(couponUsage, id)
                                 + o.shipping) * MillsPerCent + o.tax)

\* the unit price the claim gives a cart line of an order
ClaimedUnitPrice(item) ==
  LET product == products[item.productId] IN
  IF item.variantId \in DOMAIN product.variants
  THEN product.variants[item.variantId].price
  ELSE product.price

RECURSIVE ClaimedSubtotal(_)
ClaimedSubtotal(items) ==
  IF items = <<>> THEN 0
  ELSE ClaimedUnitPrice(Head(items)) * Head(items).quantity
       + ClaimedSubtotal(Tail(items))

\* C15: with prices that never change, every order item carries the price of
\* the variant its line selects, even a price of 0, or the product's price if
\* the line selects none, and the order's subtotal is the sum of price times
\* quantity over its items.
C15_SubtotalFromUnitPrices ==
  \A id \in DOMAIN orders :
    /\ \A k \in DOMAIN orders[id].items :
         orders[id].items[k].productPrice
           = ClaimedUnitPrice(orders[id].items[k])
    /\ orders[id].subtotal = ClaimedSubtotal(orders[id].items)

\* two requests that differ at most in the prices the client put on the lines
SamePurchase(a, b) ==
  /\ a.user = b.user
  /\ Len(a.cart) = Len(b.cart)
  /\ \A k \in DOMAIN a.cart :
       /\ a.cart[k].productId = b.cart[k].productId
       /\ a.cart[k].quantity = b.cart[k].quantity
       /\ a.cart[k].variantId = b.cart[k].variantId

\* what the update function computes for input in against the current store
Priced(in) ==
  LineStep(Attempt([Idle EXCEPT !.kind = "place", !.input = in], 1))

Amounts(order) ==
  [items |-> order.items, subtotal |-> order.subtotal, tax |-> order.tax,
   shipping |-> order.shipping, total |-> order.total]

\* C14: whenever a PlaceOrder request reads its product, and whenever it
\* commits its order, any request for the same purchase with other client
\* prices on its lines would against the same store get the same answer so
\* far and the same item prices, subtotal, tax, shipping and total.
C14_ClientPriceIgnored ==
  [][\A r \in Reqs : \A in \in PricingInputs :
       /\ ( /\ rq[r].pc = "idle" /\ rq'[r].kind = "place"
            /\ SamePurchase(in, rq'[r].input) )
          => /\ Priced(in).items = rq'[r].items
             /\ Priced(in).pc = rq'[r].pc
             /\ Priced(in).code = rq'[r].code
       /\ ( /\ rq[r].kind = "place" /\ rq[r].pc = "commit"
            /\ rq'[r].pc = "done" /\ rq'[r].code = 201
            /\ SamePurchase(in, rq[r].input) )
          => Amounts(orders'[Len(orders')])
               = Amounts(NewOrder(in.user, Priced(in).items, 0))]_vars

\* an order was created from a line that carried a client price, at another
\* unit price
C14_Witness ==
  \E r \in Reqs :
    /\ rq[r].kind = "place" /\ rq[r].pc = "done" /\ rq[r].code = 201
    /\ rq[r].input.cart[1].price # 0
    /\ orders # <<>>
    /\ orders[Len(orders)].items[1].productPrice # rq[r].input.cart[1].price

\* C16: every order item that names a variant names one its product has (a
\* line with an unknown variant id is not fulfilled from the product's own
\* stock), no variant's stock is negative, and the quantities ordered of a
\* variant are within its initial stock.
C16_VariantStockRespected ==
  /\ \A id \in DOMAIN orders : \A k \in DOMAIN orders[id].items :
       LET item == orders[id].items[k] IN
       item.variantId # NoVariant
         => item.variantId \in DOMAIN products[item.productId].variants
  /\ \A p \in Products : \A v \in DOMAIN products[p].variants :
       /\ products[p].variants[v].stock >= 0
       /\ products[p].variants[v].stock <= stock0[p].variants[v]

\* C18: a PlaceOrder request for a missing product is answered
\* ProductNotFound with 404, for a deactivated product ProductInactive with a
\* status other than 500, and an InsufficientStock failure is answered 409.
C18_FailureKindAndStatus ==
  \A r \in Reqs :
    (rq[r].kind = "place" /\ rq[r].pc = "done") =>
      LET item == rq[r].input.cart[1] IN
      /\ item.productId \notin DOMAIN products
           => rq[r].error = "ProductNotFound" /\ rq[r].code = 404
      /\ (item.productId \in DOMAIN products
            /\ ~products[item.productId].isActive)
           => rq[r].error = "ProductInactive" /\ rq[r].code # 500
      /\ rq[r].error = "InsufficientStock" => rq[r].code = 409

\* C17: a PlaceOrder request never makes more than MaxAttempts attempts, a
\* refused commit restarts the update function at the first cart line, an
\* order is committed only by an attempt whose reads are still current, a
\* refusal of the last attempt ends the request with ConcurrencyConflict, and
\* every request that has started gets its answer.
C17_PlaceTerminates ==
  /\ [](\A r \in Reqs : rq[r].attempt <= MaxAttempts)
  /\ [][\A r \in Reqs :
          (rq[r].kind = "place" /\ rq[r].pc = "commit" /\ rq'[r] # rq[r]) =>
             IF ~rq[r].stale
               THEN rq'[r].stale \/ (rq'[r].pc = "done" /\ rq'[r].code = 201)
             ELSE IF rq[r].attempt < MaxAttempts
               THEN \/ rq'[r].pc = "done" /\ rq'[r].code # 201
                    \/ /\ rq'[r].attempt = rq[r].attempt + 1
                       /\ Len(rq'[r].items) = 1
                       /\ rq'[r].items[1].productId
                            = rq[r].input.cart[1].productId
               ELSE /\ rq'[r].pc = "done"
                    /\ rq'[r].error = "ConcurrencyConflict"]_vars
  /\ \A r \in Reqs :
       (rq[r].kind = "place" /\ rq[r].pc # "done") ~> (rq[r].pc = "done")

\* a request has ended with ConcurrencyConflict
C17_Witness ==
  \E r \in Reqs :
    /\ rq[r].kind = "place" /\ rq[r].pc = "done"
    /\ rq[r].error = "ConcurrencyConflict"

\* the place of a status in the order pending, processing, shipped, delivered
StatusRank(status) ==
  CASE status = "pending" -> 1
    [] status = "processing" -> 2
    [] status = "shipped" -> 3
    [] status = "delivered" -> 4
    [] status = "cancelled" -> 5

\* C19: no step moves an order's status to an earlier one of pending,
\* processing, shipped, delivered, and no step takes an order out of
\* cancelled.
C19_StatusMovesForward ==
  [][\A id \in DOMAIN orders :
       StatusRank(orders'[id].status) >= StatusRank(orders[id].status)]_vars

\* C20: no two orders carry the same order number.
C20_OrderNumbersUnique ==
  \A i, j \in DOMAIN orders :
    i # j => orders[i].orderNumber # orders[j].orderNumber

\* ------------------------------------------------------------ order notes
\* POST /orders/:id/notes up to the write: orderRef.get(), 404 for a missing
\* order, the notes read
NoteRead(r) ==
  /\ CanStart(r)
  /\ \E id \in 1..MaxOrders :
       LET started == [Idle EXCEPT !.kind = "note", !.input = [orderId |-> id]]
       IN IF id \notin DOMAIN orders
          THEN rq' = [rq EXCEPT ![r] = Respond(started, 404, "NOT_FOUND")]
          ELSE rq' = [rq EXCEPT ![r] =
                        [started EXCEPT !.pc = "noteWrite",
                                        !.snap = orders[id].orderNotes]]
  /\ served' = served + 1
  /\ UNCHANGED <<products, orders, coupons, couponUsage, stock0>>

\* mutant of NoteWrite: orderRef.set in place of orderRef.update, the document
\* replaced by the fields written
NoteWriteBySet(r) ==
  /\ rq[r].kind = "note" /\ rq[r].pc = "noteWrite"
  /\ orders' = [orders EXCEPT ![rq[r].input.orderId] =
                  [@ EXCEPT !.orderNotes = Append(rq[r].snap, "note"),
                            !.items = <<>>, !.subtotal = 0, !.tax = 0,
                            !.shipping = 0, !.total = 0]]
  /\ rq' = [rq EXCEPT ![r] = Respond(rq[r], 200, "none")]
  /\ UNCHANGED <<products, coupons, couponUsage, stock0, served>>

\* lines 540-549: the note pushed on the list read and the list written back
\* with orderRef.update, 200
NoteWrite(r) ==
  /\ rq[r].kind = "note" /\ rq[r].pc = "noteWrite"
  /\ orders' = [orders EXCEPT ![rq[r].input.orderId].orderNotes =
                                 Append(rq[r].snap, "note")]
  /\ rq' = [rq EXCEPT ![r] = Respond(rq[r], 200, "none")]
  /\ UNCHANGED <<products, coupons, couponUsage, stock0, served>>

\* every operation on an order, one request at a time, with the admin's
\* status and tracking updates coming between the steps of a request
NextOrderOps ==
  \/ NextStatus
  \/ NoteRead(1)
  \/ NoteWrite(1)

SpecOrderOps == Init /\ [][NextOrderOps]_vars

\* what PlaceOrder computed for the order
Created(order) ==
  [orderNumber |-> order.orderNumber, items |-> order.items,
   subtotal |-> order.subtotal, tax |-> order.tax,
   shipping |-> order.shipping, total |-> order.total]

\* C21: no step removes an order from the store or changes the orderNumber,
\* items, subtotal, tax, shipping or total of an order that exists.
C21_CreatedFieldsFrozen ==
  [][\A id \in DOMAIN orders :
       /\ id \in DOMAIN orders'
       /\ Created(orders'[id]) = Created(orders[id])]_vars

\* an order that has been cancelled, shipped and annotated
C21_Witness ==
  \E id \in DOMAIN orders :
    /\ orders[id].cancels >= 1
    /\ orders[id].status = "shipped"
    /\ orders[id].orderNotes # <<>>

\* ------------------------------------------------- cancel and the coupons
\* an order placed, coupons applied to it and cancel requests for it, the
\* applies and the cancels running concurrently
NextCancelCoupons ==
  \/ \E in \in StatusInputs : StartPlace(1, in)
  \/ PlaceCommit(1)
  \/ PlaceRetry(1)
  \/ \E r \in Reqs : CancelRead(r)
  \/ \E r \in Reqs : CancelCommit(r)
  \/ \E r \in Reqs : ApplyAdd(r)
  \/ \E r \in Reqs : ApplyInc(r)
  \/ \E r \in Reqs : Finish(r)

SpecCancelCoupons == InitCoupons /\ [][NextCancelCoupons]_vars

\* C22: no step of a cancel request changes a coupon document or the
\* CouponUsage records: across each of them every usedCount and the set of
\* records are the same after as before.
C22_CancelLeavesCoupons ==
  [][\A r \in Reqs :
       (OwnStep(r) /\ (rq[r].kind = "cancel" \/ rq'[r].kind = "cancel"))
       => /\ coupons' = coupons
          /\ couponUsage' = couponUsage]_vars

\* a cancelled order to which a coupon had been applied
C22_Witness ==
  \E id \in DOMAIN orders : \E k \in DOMAIN couponUsage :
    /\ orders[id].status = "cancelled" /\ orders[id].cancels = 1
    /\ couponUsage[k].orderId = id
    /\ couponUsage[k].couponId \in DOMAIN coupons
    /\ coupons[couponUsage[k].couponId].usedCount = 1

\* ----------------------------------------------------------- coupon admin
\* POST /coupons/admin: refused (409) when the code is taken; otherwise
\* db.collection('coupons').add with usedCount 0 under a new document id
CreateCoupon(id, code) ==
  /\ id \notin DOMAIN coupons
  /\ \A c \in DOMAIN coupons : coupons[c].code # code
  /\ coupons' = [c \in DOMAIN coupons \cup {id} |->
                   IF c = id
                   THEN [CouponDoc(TRUE, 0, 0, 1, 0, 1, 0, {}, {})
                           EXCEPT !.code = code]
                   ELSE coupons[c]]
  /\ UNCHANGED <<products, orders, couponUsage, rq, stock0, served>>

\* mutant of UpdateCoupon: usedCount is among the fields the body may set
UpdateCouponAnyField(id) ==
  /\ id \in DOMAIN coupons
  /\ \E active \in BOOLEAN, maxUses \in {0, 1}, used \in {0, 1} :
       coupons' = [coupons EXCEPT ![id].isActive = active,
                                  ![id].maxUses = maxUses,
                                  ![id].usedCount = used]
  /\ UNCHANGED <<products, orders, couponUsage, rq, stock0, served>>

\* PUT /coupons/admin/:id: the fields of the body that are in allowedFields
\* are written with couponRef.update
UpdateCoupon(id) ==
  /\ id \in DOMAIN coupons
  /\ \E active \in BOOLEAN, maxUses \in {0, 1} :
       coupons' = [coupons EXCEPT ![id].isActive = active,
                                  ![id].maxUses = maxUses]
  /\ UNCHANGED <<products, orders, couponUsage, rq, stock0, served>>

\* DELETE /coupons/admin/:id: isActive set to false, or with permanent=true
\* the document deleted
DeleteCoupon(id, permanent) ==
  /\ id \in DOMAIN coupons
  /\ coupons' = IF permanent
                THEN [c \in DOMAIN coupons \ {id} |-> coupons[c]]
                ELSE [coupons EXCEPT ![id].isActive = FALSE]
  /\ UNCHANGED <<products, orders, couponUsage, rq, stock0, served>>

\* c1 is the coupon of the initial state, c2 the id add() gives the next one
AdminCouponIds == {"c1", "c2"}
NewCouponIds == {"c2"}
NewCouponCodes == {"SAVE10", "NEW20"}

\* coupons validated and applied one request at a time, with the admin's
\* create, update and delete coming between the steps of a request
NextCouponAdmin ==
  \/ ApplyAdd(1)
  \/ ApplyInc(1)
  \/ \E in \in ValidateProbes : ValidateFind(1, in)
  \/ ValidateUsage(1)
  \/ Finish(1)
  \/ \E id \in NewCouponIds, code \in NewCouponCodes : CreateCoupon(id, code)
  \/ \E id \in AdminCouponIds : UpdateCoupon(id)
  \/ \E id \in AdminCouponIds, permanent \in BOOLEAN :
       DeleteCoupon(id, permanent)

SpecCouponAdmin == InitCoupons /\ [][NextCouponAdmin]_vars

\* the step is the increment of a coupon apply on coupon c that is answered 200
IsRedemptionOf(c) ==
  \E r \in Reqs :
    /\ rq[r].kind = "apply" /\ rq[r].pc = "applyInc"
    /\ rq[r].input.couponId = c
    /\ rq'[r].pc = "done" /\ rq'[r].code = 200

\* C23: across every step a coupon that stays in the store keeps its usedCount
\* or, when the step is the increment of a redemption of it that is answered
\* 200, has it one higher; a coupon that enters the store has usedCount 0.
C23_UsedCountOnlyRedeemed ==
  [][/\ \A c \in DOMAIN coupons \cap DOMAIN coupons' :
          \/ coupons'[c].usedCount = coupons[c].usedCount
          \/ /\ IsRedemptionOf(c)
             /\ coupons'[c].usedCount = coupons[c].usedCount + 1
     /\ \A c \in DOMAIN coupons' \ DOMAIN coupons :
          coupons'[c].usedCount = 0]_vars

\* a redeemed coupon that has since been updated and soft-deleted, next to a
\* coupon created later
C23_Witness ==
  /\ "c1" \in DOMAIN coupons /\ "c2" \in DOMAIN coupons
  /\ coupons["c1"].usedCount >= 1
  /\ coupons["c1"].maxUses = 0
  /\ ~coupons["c1"].isActive
  /\ coupons["c2"].usedCount = 0
  /\ \E r \in Reqs : rq[r].kind = "validate" /\ rq[r].pc = "done"

\* ------------------------------------------------- placement with a coupon
\* req.body.couponCode absent
NoCouponCode == "none"

\* PlaceOrder requests whose body carries a couponCode, and ones without;
\* lines 42-48 take items, customerEmail, customerName, shippingAddress,
\* billingAddress and notes from the body and nothing else
CouponPlaceInputs ==
  {[cart |-> <<Line("p1", q, NoVariant)>>, user |-> "u1", couponCode |-> code] :
     q \in 1..MaxQty, code \in {NoCouponCode, "save10"}}

\* orders placed one request at a time, with or without the code of the
\* store's coupon
NextPlaceCoupon ==
  \/ \E in \in CouponPlaceInputs : StartPlace(1, in)
  \/ PlaceCommit(1)
  \/ Finish(1)

SpecPlaceCoupon == InitPricing /\ [][NextPlaceCoupon]_vars

\* C24: the commit of a PlaceOrder that carries the code of a coupon in force
\* raises that coupon's usedCount by one, appends one CouponUsage record for
\* the coupon and the new order and gives the order the total subtotal -
\* discount + tax + shipping; the commit of a PlaceOrder without a code
\* leaves the coupons and the CouponUsage records as they were.
C24_PlaceRedeemsCoupon ==
  [][\A r \in Reqs :
       ( /\ rq[r].kind = "place" /\ rq[r].pc = "commit"
         /\ rq'[r].pc = "done" /\ rq'[r].code = 201 )
       => LET in == rq[r].input
              id == Len(orders) + 1
          IN IF in.couponCode = NoCouponCode
             THEN coupons' = coupons /\ couponUsage' = couponUsage
             ELSE \E c \in FindCoupon(coupons, in.couponCode) :
                    /\ coupons'[c].usedCount = coupons[c].usedCount + 1
                    /\ couponUsage' =
                         Append(couponUsage,
                                [couponId |-> c, orderId |-> id,
                                 userId |-> in.user])
                    /\ orders'[id].total =
                         ( orders'[id].subtotal + orders'[id].shipping
                           - RoundToCents(DiscountAmount(coupons[c],
                                                         orders'[id].subtotal))
                         ) * MillsPerCent + orders'[id].tax]_vars

\* ---------------------------------------------------- cancel authorization
\* orders of user u1 and of guests, and cancel requests by the owner, by
\* another user and by an admin
AuthPlaceInputs ==
  {[cart |-> <<Line("p1", 1, NoVariant)>>, user |-> u] : u \in {"u1", Guest}}

AuthCancelInputs == [orderId : 1..MaxOrders, user : {"u1", "u2", AdminUser}]

NextCancelAuth ==
  \/ \E in \in AuthPlaceInputs : StartPlace(1, in)
  \/ PlaceCommit(1)
  \/ \E in \in AuthCancelInputs : CancelStart(1, in)
  \/ CancelCommit(1)
  \/ Finish(1)

SpecCancelAuth == Init /\ [][NextCancelAuth]_vars

\* the uid of request record q is neither an admin's nor the one on the order
Unauthorized(q) ==
  /\ ~IsAdmin(q.input.user)
  /\ orders[q.input.orderId].userId # q.input.user

\* C25: a cancel request for an existing order by a user who is neither an
\* admin nor the order's owner is answered 403 in the step it arrives, which
\* leaves every order and every product as it was, and no such request ever
\* reaches the cancel transaction; a guest order has no owner among the users.
C25_ForeignCancelRejected ==
  /\ [][\A r \in Reqs :
          ( /\ rq[r].pc = "idle" /\ rq'[r].kind = "cancel"
            /\ rq'[r].input.orderId \in DOMAIN orders
            /\ Unauthorized(rq'[r]) )
          => /\ rq'[r].pc = "done" /\ rq'[r].code = 403
             /\ orders' = orders /\ products' = products]_vars
  /\ [](\A r \in Reqs :
          (rq[r].kind = "cancel" /\ rq[r].pc = "cancelTx")
          => ~Unauthorized(rq[r]))

\* a user's cancel of a pending guest order has been answered 403
C25_Witness ==
  \E r \in Reqs :
    /\ rq[r].kind = "cancel" /\ rq[r].pc = "done" /\ rq[r].code = 403
    /\ rq[r].input.orderId \in DOMAIN orders
    /\ orders[rq[r].input.orderId].userId = Guest
    /\ orders[rq[r].input.orderId].status = "pending"
    /\ products["p1"].stockQuantity = stock0["p1"].stockQuantity - 1

\* C26: the step that ends a cancel request's transaction sets the order to
\* cancelled only if the order is pending or processing at that step; if the
\* order has meanwhile been moved to another status, the step leaves the
\* order's status and every product's stock as they were.
C26_CancelOnlyFromCancellable ==
  [][\A r \in Reqs :
       ( /\ rq[r].kind = "cancel" /\ rq[r].pc = "cancelTx"
         /\ rq'[r].pc = "done" )
       => LET id == rq[r].input.orderId IN
          IF Cancellable(orders[id].status)
          THEN orders'[id].status = "cancelled"
          ELSE /\ orders'[id].status = orders[id].status
               /\ products' = products]_vars

\* ------------------------------------------------------ what is retried
\* the failures the update function throws itself
BusinessErrors ==
  {"ProductNotFound", "ProductInactive", "InsufficientStock",
   "InsufficientVariantStock"}

\* C27: a PlaceOrder request whose update function throws a business-rule
\* failure on its first attempt is answered with that failure in the same
\* step, with the store unchanged, and the only step that starts a further
\* attempt is the one after a commit the store refused.
C27_OnlyConflictsRetried ==
  [][\A r \in Reqs :
       /\ ( /\ rq[r].pc = "idle" /\ rq'[r].kind = "place"
            /\ LineError(rq'[r].input.cart[1]) \in BusinessErrors )
          => /\ rq'[r].pc = "done"
             /\ rq'[r].error = LineError(rq'[r].input.cart[1])
             /\ Store' = Store
       /\ ( /\ rq[r].kind = "place" /\ rq[r].pc # "done"
            /\ rq'[r].error \in BusinessErrors )
          => rq'[r].pc = "done"
       /\ ( rq[r].kind = "place" /\ rq'[r].attempt > rq[r].attempt )
          => /\ rq[r].pc = "commit" /\ rq[r].stale
             /\ rq'[r].attempt = rq[r].attempt + 1]_vars

\* one request has been answered with a business-rule failure while another
\* is on a further attempt after a refused commit
C27_Witness ==
  \E r, s \in Reqs :
    /\ rq[r].kind = "place" /\ rq[r].pc = "done"
    /\ rq[r].error \in BusinessErrors
    /\ rq[s].kind = "place" /\ rq[s].pc = "commit" /\ rq[s].attempt >= 2

\* the orders that are not cancelled
RECURSIVE OpenOrders(_)
OpenOrders(os) ==
  IF os = <<>> THEN <<>>
  ELSE (IF Head(os).status = "cancelled" THEN <<>> ELSE <<Head(os)>>)
       \o OpenOrders(Tail(os))

\* C28: in every state each product's stockQuantity plus the quantities of it
\* on the orders that are not cancelled equals its initial stock.
C28_StockConserved ==
  \A p \in Products :
    products[p].stockQuantity + OrderedQty(OpenOrders(orders), p)
      = stock0[p].stockQuantity

\* ------------------------------------------- one product on several lines
\* the cart lists a product on more than one line
Repeats(cart) ==
  \E j, k \in DOMAIN cart : j # k /\ cart[j].productId = cart[k].productId

\* the lines of the cart together ask for more of a product than is in stock
ExceedsStock(cart) ==
  \E p \in Products : ItemsQty(cart, p) > products[p].stockQuantity

\* C29: no step of a PlaceOrder request whose cart lists a product on more
\* than one line, the lines together asking for more than the product's
\* stock, commits an order or changes a product, and no product's
\* stockQuantity is ever below 0.
C29_RepeatedLinesWithinStock ==
  /\ [][\A r \in Reqs :
          ( /\ rq'[r].kind = "place" /\ OwnStep(r)
            /\ Repeats(rq'[r].input.cart)
            /\ ExceedsStock(rq'[r].input.cart) )
          => /\ ~(rq'[r].pc = "done" /\ rq'[r].code = 201)
             /\ products' = products /\ orders' = orders]_vars
  /\ [](\A p \in Products : products[p].stockQuantity >= 0)

\* a request for two lines of one unit each of a product with one unit in
\* stock has been answered
C29_Witness ==
  \E r \in Reqs :
    /\ IsPlaceOf(rq[r], <<Line("p1", 1, NoVariant), Line("p1", 1, NoVariant)>>)
    /\ rq[r].pc = "done"
    /\ stock0["p1"].stockQuantity = 1
    /\ products["p1"].stockQuantity = 1
    /\ orders = <<>>

\* -------------------------------------------------- admin stock adjustment
\* PATCH /products/:id/stock with {adjustment: d}
AdjustInputs == [productId : {"p1"}, adjustment : {-1, 1}]

\* lines 528-529: if (newStock < 0) newStock = 0
ClampAtZero(n) == IF n < 0 THEN 0 ELSE n

\* PATCH /products/:id/stock up to the write: productRef.get() outside any
\* transaction
AdjustRead(r) ==
  /\ CanStart(r)
  /\ \E in \in AdjustInputs :
       rq' = [rq EXCEPT ![r] =
                [Idle EXCEPT !.kind = "adjust", !.input = in,
                             !.pc = "adjustWrite",
                             !.snap = [stockQuantity |->
                                         products[in.productId].stockQuantity]]]
  /\ served' = served + 1
  /\ UNCHANGED <<products, orders, coupons, couponUsage, stock0>>

\* lines 527-542: the stock read plus the adjustment, clamped, written as an
\* absolute value with productRef.update, 200
AdjustWrite(r) ==
  /\ rq[r].kind = "adjust" /\ rq[r].pc = "adjustWrite"
  /\ LET p == rq[r].input.productId
         newStock == ClampAtZero(rq[r].snap.stockQuantity
                                 + rq[r].input.adjustment)
     IN /\ products' = [products EXCEPT ![p].stockQuantity = newStock]
        /\ rq' = [MarkStale(rq, r, {p})
                    EXCEPT ![r] = Respond(rq[r], 200, "none")]
  /\ UNCHANGED <<orders, coupons, couponUsage, stock0, served>>

\* stock adjustments concurrent with PlaceOrder and cancel requests for one
\* unit of the product
NextAdjust ==
  \/ \E r \in Reqs : \E in \in StatusInputs : StartPlace(r, in)
  \/ \E r \in Reqs : PlaceCommit(r)
  \/ \E r \in Reqs : PlaceRetry(r)
  \/ \E r \in Reqs : CancelRead(r)
  \/ \E r \in Reqs : CancelCommit(r)
  \/ \E r \in Reqs : AdjustRead(r)
  \/ \E r \in Reqs : AdjustWrite(r)
  \/ \E r \in Reqs : Finish(r)

SpecAdjust == Init /\ [][NextAdjust]_vars

\* C30: when an adjustment by d and a PlaceOrder for q units, the only two
\* requests served, have both been answered, stockQuantity is the initial
\* stock plus d, minus q if the order was created, clamped at 0; when an
\* adjustment by d and the cancel of the one order placed (q units) have both
\* been answered, with initial stock - q + d not below 0, stockQuantity is the
\* initial stock plus d.
C30_AdjustmentNotLost ==
  \A r, s \in Reqs :
    ( /\ r # s
      /\ rq[r].kind = "adjust" /\ rq[r].pc = "done" /\ rq[r].code = 200
      /\ rq[s].pc = "done" )
    => LET d == rq[r].input.adjustment
           p == rq[r].input.productId
       IN /\ (rq[s].kind = "place" /\ served = 2)
             => products[p].stockQuantity
                  = ClampAtZero(stock0[p].stockQuantity + d
                                - OrderedQty(orders, p))
          /\ ( /\ rq[s].kind = "cancel" /\ rq[s].code = 200 /\ served = 3
               /\ Len(orders) = 1 /\ orders[1].cancels = 1
               /\ stock0[p].stockQuantity - OrderedQty(orders, p) + d >= 0 )
             => products[p].stockQuantity = stock0[p].stockQuantity + d

====
